---- MODULE Spec2Model ----
(***************************************************************************)
(* Model of hax.minitrees: the minitree cache.  get(run, treemaker) looks  *)
(* for a minitree file in the configured folders, checks its metadata      *)
(* against the treemaker version and the pax version policy, and rebuilds  *)
(* the file from the main data root file when the check fails.             *)
(*                                                                         *)
(* Strings that the code inspects character by character (version         *)
(* strings) are sequences of one-character strings; None is <<>>.          *)
(***************************************************************************)
EXTENDS Integers, Sequences, FiniteSets, TLC

VARIABLES fs, config, raw, last, first, running, treemakers

vars == <<fs, config, raw, last, first, running, treemakers>>

None == <<>>

(***************************************************************************)
(* Version strings.                                                        *)
(***************************************************************************)
v0_1 == <<"0", ".", "1">>
v0_2_0 == <<"0", ".", "2", ".", "0">>
v0_10 == <<"0", ".", "1", "0">>
p4_9 == <<"4", ".", "9">>
p4_09 == <<"4", ".", "0", "9">>
p4_10 == <<"4", ".", "1", "0">>

\* Treemaker versions found in the metadata of minitree files on disk.
StoredVersions == {v0_1, v0_2_0, v0_10}
\* pax versions found in the metadata of minitree files on disk.
StoredPaxVersions == {p4_9, p4_09, p4_10}
\* file_builder_version of the main data root files.
RawPaxVersions == {p4_9, p4_10}
\* Largest number of events in a main data root file.
MaxEvents == 1

LATEST == <<"latest">>
LOOSE == <<"loose">>
\* Values of hax.config['pax_version_policy'].
Policies == {LATEST, LOOSE, p4_9, p4_10}

\* hax.config['minitree_paths']
minitree_paths == <<"dirA", "dirB">>
Folders == {minitree_paths[i] : i \in 1..Len(minitree_paths)}

\* Dataset (run) names.
Runs == {<<"run1">>}

(***************************************************************************)
(* distutils.version.LooseVersion, on strings of digits and dots.          *)
(***************************************************************************)
DigitVal(c) ==
    CASE c = "0" -> 0 [] c = "1" -> 1 [] c = "2" -> 2 [] c = "3" -> 3
      [] c = "4" -> 4 [] c = "5" -> 5 [] c = "6" -> 6 [] c = "7" -> 7
      [] c = "8" -> 8 [] c = "9" -> 9

RECURSIVE ParseFrom(_, _, _, _)
\* cur is the value of the digit run being read, -1 when there is none.
ParseFrom(s, i, cur, acc) ==
    IF i > Len(s)
    THEN IF cur >= 0 THEN Append(acc, cur) ELSE acc
    ELSE IF s[i] = "."
         THEN ParseFrom(s, i + 1, -1, IF cur >= 0 THEN Append(acc, cur) ELSE acc)
         ELSE ParseFrom(s, i + 1, (IF cur >= 0 THEN cur ELSE 0) * 10 + DigitVal(s[i]), acc)

\* LooseVersion(vstring).version: the digit runs as integers, dots dropped.
LooseVersion(vstring) == ParseFrom(vstring, 1, -1, <<>>)

\* Python's list < list: the first differing element decides, else the length.
ListLess(a, b) ==
    LET common == IF Len(a) < Len(b) THEN Len(a) ELSE Len(b)
        diff == {i \in 1..common : a[i] # b[i]}
    IN  IF diff = {}
        THEN Len(a) < Len(b)
        ELSE LET k == CHOOSE i \in diff : \A j \in diff : i <= j
             IN  a[k] < b[k]

\* Character codes of the digits and the dot, for the string-order mutant.
CharOrd(c) == IF c = "." THEN 46 ELSE 48 + DigitVal(c)

\* Mutant: the version strings compared as plain strings.
StringLess(v, w) ==
    ListLess([i \in 1..Len(v) |-> CharOrd(v[i])], [i \in 1..Len(w) |-> CharOrd(w[i])])

\* LooseVersion(v) < LooseVersion(w)
LooseVersionLess(v, w) == ListLess(LooseVersion(v), LooseVersion(w))


(***************************************************************************)
(* Treemaker classes.  A class is its name, its __version__ (when it has   *)
(* one) and its cache_size.                                                *)
(***************************************************************************)
cache_size == 1000

TotalProperties ==
    [name |-> <<"TotalProperties">>, has_version |-> TRUE, version |-> v0_2_0,
     cache_size |-> cache_size]

\* A TreeMaker subclass written without a __version__ attribute.
NoVersionMaker ==
    [name |-> <<"NoVersionMaker">>, has_version |-> FALSE, version |-> None,
     cache_size |-> cache_size]

\* The other classes of hax/treemakers/common.py, and the base class, which
\* common.py imports.
Fundamentals ==
    [name |-> <<"Fundamentals">>, has_version |-> TRUE, version |-> v0_1,
     cache_size |-> cache_size]
Basics ==
    [name |-> <<"Basics">>, has_version |-> TRUE, version |-> v0_1,
     cache_size |-> cache_size]
LargestPeakProperties ==
    [name |-> <<"LargestPeakProperties">>, has_version |-> TRUE, version |-> v0_1,
     cache_size |-> cache_size]
TreeMaker ==
    [name |-> <<"TreeMaker">>, has_version |-> FALSE, version |-> None,
     cache_size |-> cache_size]

\* A module of hax/treemakers: its file name without .py, and what
\* inspect.getmembers finds in it: the (name, class) pairs of its TreeMaker
\* classes, sorted by name.
Member(class) == <<class.name, class>>
common ==
    [module_name |-> <<"common">>,
     members |-> <<Member(Basics), Member(Fundamentals), Member(LargestPeakProperties),
                   Member(TotalProperties), Member(TreeMaker)>>]
init_py == [module_name |-> <<"_", "_", "init", "_", "_">>, members |-> <<>>]
\* glob(hax_dir + '/treemakers/*.py')
hax_treemakers == <<init_py, common>>

\* A registry test that never finds the name.
registered_never(tm_name, registry) == FALSE

\* Line 152: the name is in the registry already.
registered(tm_name, registry) == tm_name \in DOMAIN registry

RECURSIVE scan_members(_, _, _)
\* Lines 147-154: the members from number k on, into the registry.
scan_members(members, k, registry) ==
    IF k > Len(members) THEN [exc |-> "none", treemakers |-> registry]
    ELSE LET tm_name == members[k][1]
             tm == members[k][2]
         IN  IF tm_name = <<"TreeMaker">>
             THEN scan_members(members, k + 1, registry)
             ELSE IF registered(tm_name, registry)
             THEN [exc |-> "ValueError", treemakers |-> registry]
             ELSE scan_members(members, k + 1, (tm_name :> tm) @@ registry)

RECURSIVE scan_modules(_, _, _)
\* Lines 138-154: the modules from number k on.
scan_modules(modules, k, registry) ==
    IF k > Len(modules) THEN [exc |-> "none", treemakers |-> registry]
    ELSE IF modules[k].module_name[1] = "_"
    THEN scan_modules(modules, k + 1, registry)
    ELSE LET r == scan_members(modules[k].members, 1, registry)
         IN  IF r.exc # "none" THEN r
             ELSE scan_modules(modules, k + 1, r.treemakers)

\* update_treemakers: the registry starts empty; the result is the exception
\* raised ("none" when it returns) and the registry left behind.
update_treemakers(modules) == scan_modules(modules, 1, <<>>)

\* The registry after the update_treemakers of hax init: name -> class.
hax_init_treemakers == update_treemakers(hax_treemakers).treemakers

\* The treemaker argument of get: a name (a str) or a class.
TmByName(n) == [isstr |-> TRUE, name |-> n, class |-> None]
TmByClass(c) == [isstr |-> FALSE, name |-> None, class |-> c]

\* The treemaker whose minitrees the folders hold at the start.
StoredTreemakers == {<<"TotalProperties">>}
\* The treemakers asked for by name that the registry knows.
KnownTmArgs == {TmByName(n) : n \in StoredTreemakers}
\* A name the registry does not know, and a class without a version.
BadTmArgs == {TmByName(<<"Unknown">>), TmByClass(NoVersionMaker)}

\* get_treemaker_name_and_class(tm): (name, class), or ValueError.
get_treemaker_name_and_class(tm) ==
    IF tm.isstr
    THEN IF tm.name \notin DOMAIN treemakers
         THEN [exc |-> "ValueError", name |-> None, class |-> None]
         ELSE [exc |-> "none", name |-> tm.name, class |-> treemakers[tm.name]]
    ELSE IF tm.class # None
         THEN [exc |-> "none", name |-> tm.class.name, class |-> tm.class]
         ELSE [exc |-> "ValueError", name |-> None, class |-> None]

(***************************************************************************)
(* TreeMaker.get_data: loop over the events of the main data root file,    *)
(* collect the extracted rows in self.cache and move them to self.data     *)
(* when the cache is full and at the end.  A row is the event's number.    *)
(* The two sides of the merge left open at lines 111-116 differ in the     *)
(* branch_selection handed to loop_over_dataset, the fields read for each  *)
(* event: the events looped over and the rows collected are the same.      *)
(***************************************************************************)
extract_data(event) == event

\* check_cache that leaves the rows in the cache after it moved them.
check_cache_keeps_cache(self, size, force_empty) ==
    IF Len(self.cache) = 0 \/ (Len(self.cache) < size /\ ~force_empty)
    THEN self
    ELSE [cache |-> self.cache,
          has_data |-> TRUE,
          data |-> IF ~self.has_data THEN self.cache ELSE self.data \o self.cache]

\* check_cache that moves the cache to self.data only when it is full.
check_cache_when_full(self, size, force_empty) ==
    IF Len(self.cache) < size
    THEN self
    ELSE [cache |-> <<>>,
          has_data |-> TRUE,
          data |-> IF ~self.has_data THEN self.cache ELSE self.data \o self.cache]

check_cache(self, size, force_empty) ==
    IF Len(self.cache) = 0 \/ (Len(self.cache) < size /\ ~force_empty)
    THEN self
    ELSE [cache |-> <<>>,
          has_data |-> TRUE,
          data |-> IF ~self.has_data THEN self.cache ELSE self.data \o self.cache]

process_event(self, size, event) ==
    check_cache([self EXCEPT !.cache = Append(@, extract_data(event))], size, FALSE)

RECURSIVE loop_over_dataset(_, _, _, _)
\* Events i..n of the dataset, in order, through process_event.
loop_over_dataset(self, size, i, n) ==
    IF i > n THEN self
    ELSE loop_over_dataset(process_event(self, size, i), size, i + 1, n)

\* A fresh TreeMaker instance: empty cache, no data attribute yet.
NewTreeMaker == [cache |-> <<>>, has_data |-> FALSE, data |-> <<>>]

\* get_data that returns data without rows for a run without events.
get_data_empty_is_data(class, dataset) ==
    IF dataset \notin DOMAIN raw
    THEN [exc |-> "FileNotFoundError", data |-> <<>>]
    ELSE [exc |-> "none", data |-> [i \in 1..raw[dataset].events |-> i]]

\* get_data that takes a run without main data for a run without events.
get_data_missing_is_empty(class, dataset) ==
    [exc |-> "RuntimeError", data |-> <<>>]

get_data(class, dataset) ==
    IF dataset \notin DOMAIN raw
    THEN [exc |-> "FileNotFoundError", data |-> <<>>]
    ELSE LET looped == loop_over_dataset(NewTreeMaker, class.cache_size, 1, raw[dataset].events)
             self == check_cache(looped, class.cache_size, TRUE)
         IN  IF ~self.has_data
             THEN [exc |-> "RuntimeError", data |-> <<>>]
             ELSE [exc |-> "none", data |-> self.data]

(***************************************************************************)
(* Collaborators outside minitrees.py.                                     *)
(***************************************************************************)
\* hax.utils.find_file_in_folders: the first folder, in list order, that
\* holds a file of that name; None stands for FileNotFoundError.
find_file_in_folders(filename, folders) ==
    LET hits == {i \in 1..Len(folders) :
                    folders[i] \in DOMAIN fs /\ filename \in DOMAIN fs[folders[i]]}
    IN  IF hits = {} THEN None
        ELSE <<folders[CHOOSE i \in hits : \A j \in hits : i <= j], filename>>

\* hax.paxroot.get_metadata: the metadata of the run's main data root file;
\* None stands for FileNotFoundError.
get_metadata(run_name) ==
    IF run_name \in DOMAIN raw
    THEN [file_builder_version |-> raw[run_name].file_builder_version]
    ELSE None

(***************************************************************************)
(* _check_minitree_path                                                    *)
(***************************************************************************)
Return(path) == [exc |-> "none", path |-> path]
Raise(e) == [exc |-> e, path |-> None]

\* Mutant: no treemaker version check.
outdated_treemaker_never(minitree_metadata, treemaker) == FALSE

\* Line 178: the minitree was made by an older version of the treemaker.
outdated_treemaker(minitree_metadata, treemaker) ==
    LooseVersionLess(minitree_metadata.version, treemaker.version)

\* Mutant: <= for <, so that a minitree of the current pax version is outdated.
outdated_pax_or_equal(minitree_metadata, pax_metadata) ==
    \/ "pax_version" \notin DOMAIN minitree_metadata
    \/ ~LooseVersionLess(pax_metadata.file_builder_version, minitree_metadata.pax_version)

\* Lines 192-194: the minitree has no pax_version, or one older than the
\* file_builder_version of the main data root file.
outdated_pax(minitree_metadata, pax_metadata) ==
    \/ "pax_version" \notin DOMAIN minitree_metadata
    \/ LooseVersionLess(minitree_metadata.pax_version, pax_metadata.file_builder_version)

\* Mutant: the pax versions compared as versions, not as strings.
same_pax_version_loose(pax_version, version_policy) ==
    /\ ~LooseVersionLess(pax_version, version_policy)
    /\ ~LooseVersionLess(version_policy, pax_version)

\* Line 206: minitree_metadata['pax_version'] == version_policy, on strings.
same_pax_version(pax_version, version_policy) == pax_version = version_policy

\* Mutant: FileNotFoundError of get_metadata not caught.
check_latest_no_except(minitree_path, minitree_metadata, pax_metadata) ==
    IF pax_metadata = None
    THEN Raise("FileNotFoundError")
    ELSE IF "pax_version" \notin DOMAIN minitree_metadata
            \/ LooseVersionLess(minitree_metadata.pax_version,
                                pax_metadata.file_builder_version)
         THEN Return(None)
         ELSE Return(minitree_path)

\* Lines 185-200: policy 'latest'.  pax_metadata = None is the except branch.
check_latest(minitree_path, minitree_metadata, pax_metadata) ==
    IF pax_metadata = None
    THEN Return(minitree_path)
    ELSE IF outdated_pax(minitree_metadata, pax_metadata)
         THEN Return(None)
         ELSE Return(minitree_path)

\* Lines 205-211: a policy that names a pax version.  The subscript
\* minitree_metadata['pax_version'] raises KeyError when the key is missing.
check_exact(minitree_path, minitree_metadata, version_policy) ==
    IF "pax_version" \notin DOMAIN minitree_metadata
    THEN Raise("KeyError")
    ELSE IF ~same_pax_version(minitree_metadata.pax_version, version_policy)
         THEN Return(None)
         ELSE Return(minitree_path)

\* Lines 173-214: the checks on a minitree file that was found.
check_found(minitree_path, treemaker, run_name) ==
    LET version_policy == config.pax_version_policy
        minitree_metadata == fs[minitree_path[1]][minitree_path[2]].metadata
    IN  IF minitree_metadata = None
        THEN Raise("ReferenceError")
        ELSE IF outdated_treemaker(minitree_metadata, treemaker)
        THEN Return(None)
        ELSE IF version_policy = LATEST
        THEN check_latest(minitree_path, minitree_metadata, get_metadata(run_name))
        ELSE IF version_policy = LOOSE
        THEN Return(minitree_path)
        ELSE check_exact(minitree_path, minitree_metadata, version_policy)

\* Mutant: force_reload ignored.
check_minitree_path_no_force(minitree_filename, treemaker, run_name, force_reload) ==
    LET minitree_path == find_file_in_folders(minitree_filename, config.minitree_paths)
    IN  IF minitree_path = None
        THEN Return(None)
        ELSE check_found(minitree_path, treemaker, run_name)

\* Mutant: the search goes on to the next folders when a file is rejected.
check_minitree_path_search_on(minitree_filename, treemaker, run_name, force_reload) ==
    LET folders == config.minitree_paths
        good == {i \in 1..Len(folders) :
                    /\ folders[i] \in DOMAIN fs
                    /\ minitree_filename \in DOMAIN fs[folders[i]]
                    /\ check_found(<<folders[i], minitree_filename>>,
                                   treemaker, run_name).path # None}
    IN  IF force_reload \/ good = {} THEN Return(None)
        ELSE Return(<<folders[CHOOSE i \in good : \A j \in good : i <= j], minitree_filename>>)

check_minitree_path(minitree_filename, treemaker, run_name, force_reload) ==
    IF force_reload THEN Return(None)
    ELSE LET minitree_path ==
                 find_file_in_folders(minitree_filename, config.minitree_paths)
         IN  IF minitree_path = None
             THEN Return(None)
             ELSE check_found(minitree_path, treemaker, run_name)

(***************************************************************************)
(* get                                                                     *)
(***************************************************************************)
\* "%s_%s.root" % (run_name, treemaker_name), and the same with ".pkl"
minitree_name(run_name, treemaker_name, ext) ==
    run_name \o <<"_">> \o treemaker_name \o <<ext>>

\* Mutant: the last folder of minitree_paths.
creation_dir_last(paths) == paths[Len(paths)]

\* Line 251: the first (highest priority) folder of minitree_paths.
creation_dir_of(paths) == paths[1]

\* Line 252: os.path.exists(d)
os_path_exists(f, d) == d \in DOMAIN f

\* Line 253: os.makedirs(d), which raises FileExistsError for a folder that
\* exists.
os_makedirs(f, d) ==
    IF d \in DOMAIN f THEN [exc |-> "FileExistsError", fs |-> f]
    ELSE [exc |-> "none", fs |-> f @@ (d :> <<>>)]

\* Lines 252-253 in a get that no other process runs beside: os.makedirs(d)
\* when d does not exist.
makedirs(f, d) == IF os_path_exists(f, d) THEN f ELSE os_makedirs(f, d).fs

\* A write that also overwrites the file of that name in every other folder
\* that holds one.
write_file_all_copies(f, d, name, c) ==
    [e \in DOMAIN f |->
        IF e = d
        THEN [n \in (DOMAIN f[e]) \cup {name} |-> IF n = name THEN c ELSE f[e][n]]
        ELSE [n \in DOMAIN f[e] |-> IF n = name THEN c ELSE f[e][n]]]

\* The file name in folder d of f created or overwritten with content c.
write_file(f, d, name, c) ==
    [f EXCEPT ![d] = [n \in (DOMAIN f[d]) \cup {name} |-> IF n = name THEN c ELSE f[d][n]]]

\* Lines 266-270: the tree written to a new file at the path (mode
\* 'recreate'); the file has no metadata object.
array2root(f, path) == write_file(f, path[1], path[2], [metadata |-> None])

\* A get that writes no metadata into the file.
write_metadata_skipped(f, path, metadata_dict) == f

\* Lines 272-275: the file at the path opened with 'UPDATE' and the
\* metadata written into it.
write_metadata(f, path, metadata_dict) ==
    write_file(f, path[1], path[2], [metadata |-> metadata_dict])

\* The answer of _check_minitree_path in a call that did not get to it.
NotChecked == [exc |-> "not called", path |-> None]

\* A test that finds a __version__ on every class.
hasattr_version_always(treemaker) == TRUE

\* Line 225: hasattr(treemaker, '__version__')
hasattr_version(treemaker) == treemaker.has_version

\* A test that takes every answer of _check_minitree_path for None.
minitree_path_found_never(chk) == FALSE

\* Line 234: minitree_path is not None
minitree_path_found(chk) == chk.path # None

\* What a call of get does: the exception raised ("none" when it returns),
\* the path and the frame returned, the answer of _check_minitree_path,
\* whether get_data was called, the file system it leaves, and the file
\* system between the write of the tree and the write of the metadata.
get_call(run_name, tm, force_reload, save_root, save_pickle) ==
    LET nc == get_treemaker_name_and_class(tm)
        raised(e, chk, extracted) ==
            [exc |-> e, path |-> None, data |-> <<>>, check |-> chk,
             extracted |-> extracted, fs |-> fs, fs_tree |-> fs, metadata |-> None]
    IN  IF nc.exc # "none" THEN raised(nc.exc, NotChecked, FALSE)
        ELSE IF ~hasattr_version(nc.class) THEN raised("AttributeError", NotChecked, FALSE)
        ELSE
        LET treemaker == nc.class
            minitree_filename == minitree_name(run_name, nc.name, ".root")
            minitree_pickle_filename == minitree_name(run_name, nc.name, ".pkl")
            chk == check_minitree_path(minitree_filename, treemaker, run_name, force_reload)
        IN  IF chk.exc # "none"
            THEN raised(chk.exc, chk, FALSE)
            ELSE IF minitree_path_found(chk)
            THEN [exc |-> "none", path |-> chk.path, data |-> <<>>, check |-> chk,
                  extracted |-> FALSE, fs |-> fs, fs_tree |-> fs, metadata |-> None]
            ELSE
            LET skimmed_data == get_data(treemaker, run_name)
            IN  IF skimmed_data.exc # "none"
                THEN raised(skimmed_data.exc, chk, TRUE)
                ELSE
                LET creation_dir == creation_dir_of(config.minitree_paths)
                    fs1 == makedirs(fs, creation_dir)
                    metadata_dict ==
                        [version |-> treemaker.version,
                         pax_version |-> get_metadata(run_name).file_builder_version]
                    fs2 == IF save_pickle
                           THEN write_file(fs1, creation_dir, minitree_pickle_filename,
                                           [metadata |-> metadata_dict])
                           ELSE fs1
                    minitree_path == <<creation_dir, minitree_filename>>
                    fs3 == IF save_root THEN array2root(fs2, minitree_path) ELSE fs2
                    fs4 == IF save_root
                           THEN write_metadata(fs3, minitree_path, metadata_dict)
                           ELSE fs3
                IN  [exc |-> "none", path |-> minitree_path,
                     data |-> skimmed_data.data, check |-> chk,
                     extracted |-> TRUE, fs |-> fs4, fs_tree |-> fs3,
                     metadata |-> metadata_dict]

(***************************************************************************)
(* State.                                                                  *)
(*   fs      folder -> file name -> content, for the folders that exist    *)
(*   config  hax.config                                                    *)
(*   raw     run -> main data root file, for the runs that have one        *)
(*   last    the last call of get or load that ended: arguments, file      *)
(*           system before, result                                         *)
(*   first   when the last call repeated the arguments of the call before  *)
(*           it, that call; NoCall otherwise                               *)
(*   running the call that has begun and not ended yet; NoCall when there  *)
(*           is none                                                       *)
(*   treemakers  the registry of minitrees.py: name -> class               *)
(***************************************************************************)
NoCall ==
    [op |-> "none", run_name |-> None, tm |-> None, force_reload |-> FALSE,
     save_root |-> FALSE, save_pickle |-> FALSE, before |-> <<>>,
     exc |-> "none", path |-> None, data |-> <<>>, check |-> NotChecked,
     extracted |-> FALSE]

\* Metadata records of minitree files: with and without a pax_version.
Metadatas ==
    {[version |-> v, pax_version |-> p] : v \in StoredVersions, p \in StoredPaxVersions}
        \cup {[version |-> v] : v \in StoredVersions}

\* The minitree file names of the model's keys.
Keys == {minitree_name(r, n, ".root") : r \in Runs, n \in StoredTreemakers}

\* Contents of a folder: some of the keys' files, each with a metadata record.
FolderContents ==
    UNION {[K -> {[metadata |-> m] : m \in Metadatas}] : K \in SUBSET Keys}

RawFiles ==
    UNION {[R -> [file_builder_version : RawPaxVersions, events : 0..MaxEvents]] :
              R \in SUBSET Runs}

SameArgs(c, run_name, tm, force_reload, save_root, save_pickle) ==
    /\ c.op = "get"
    /\ c.run_name = run_name
    /\ c.tm = tm
    /\ c.force_reload = force_reload
    /\ c.save_root = save_root
    /\ c.save_pickle = save_pickle

Init ==
    /\ fs \in UNION {[D -> FolderContents] : D \in SUBSET Folders}
    /\ config \in [pax_version_policy : Policies, minitree_paths : {minitree_paths}]
    /\ raw \in RawFiles
    /\ last = NoCall
    /\ first = NoCall
    /\ running = NoCall
    /\ treemakers = hax_init_treemakers

get(run_name, tm, force_reload, save_root, save_pickle) ==
    LET r == get_call(run_name, tm, force_reload, save_root, save_pickle)
    IN  /\ fs' = r.fs
        /\ last' = [op |-> "get", run_name |-> run_name, tm |-> tm,
                    force_reload |-> force_reload, save_root |-> save_root,
                    save_pickle |-> save_pickle, before |-> fs,
                    exc |-> r.exc, path |-> r.path, data |-> r.data,
                    check |-> r.check,
                    extracted |-> r.extracted]
        /\ first' = IF SameArgs(last, run_name, tm, force_reload, save_root, save_pickle)
                    THEN last ELSE NoCall
        /\ UNCHANGED <<config, raw, running, treemakers>>

Next ==
    \E run_name \in Runs, tm \in KnownTmArgs, force_reload \in BOOLEAN,
       save_root \in BOOLEAN, save_pickle \in BOOLEAN :
        get(run_name, tm, force_reload, save_root, save_pickle)

Spec == Init /\ [][Next]_vars

(***************************************************************************)
(* load.  A frame is its column names, its index (the row labels) and its  *)
(* rows; a row has one cell for each column, and a cell is the pair of the *)
(* run and the event it was extracted from, or NaN.                        *)
(***************************************************************************)
NaN == <<>>
\* pd.DataFrame()
EmptyFrame == [columns |-> <<>>, index |-> <<>>, rows |-> <<>>]

\* The keys of the dict that extract_data of the treemaker returns, in the
\* order the dict is written in.
extract_keys(treemaker_name) ==
    IF treemaker_name = <<"Fundamentals">>
    THEN <<"event_time", "event_duration">>
    ELSE IF treemaker_name = <<"TotalProperties">>
    THEN <<"n_pulses", "n_peaks", "n_true_peaks", "total_peak_area", "area_before_main_s2">>
    ELSE <<"value">>

\* The column names of the model in ascending order.
ColumnNames ==
    <<"area_before_main_s2", "event_duration", "event_time", "n_peaks",
      "n_pulses", "n_true_peaks", "total_peak_area", "value">>

\* The names of the list in ascending order.
sorted_columns(columns) ==
    LET named(c) == \E n \in 1..Len(columns) : columns[n] = c
    IN  SelectSeq(ColumnNames, named)

\* The pandas that is installed decides the order of the columns, and the
\* code asks for none:
\*   SORTS         DataFrame(list of dicts) sorts the keys, and concat
\*                 sorts the columns of frames whose columns differ
\*   SORTS_CONCAT  DataFrame keeps the order of the keys, concat sorts
\*   KEEPS         both keep the order of appearance
SORTS == "sorts"
SORTS_CONCAT == "sorts_concat"
KEEPS == "keeps"
PandasBuilds == {SORTS, SORTS_CONCAT, KEEPS}

\* The columns of pd.DataFrame(self.cache), line 126.
DataFrame_columns(keys, pandas) ==
    IF pandas = SORTS THEN sorted_columns(keys) ELSE keys

\* The frame get returns: pd.DataFrame() when the minitree was found, else
\* self.data of get_data, one row for each event, labelled 0, 1, ...
frame_of(run_name, treemaker_name, data) ==
    IF data = <<>> THEN EmptyFrame
    ELSE [columns |-> DataFrame_columns(extract_keys(treemaker_name), config.pandas),
          index |-> [i \in 1..Len(data) |-> i - 1],
          rows |-> [i \in 1..Len(data) |->
                       [c \in 1..Len(extract_keys(treemaker_name)) |-> <<run_name, data[i]>>]]]

RECURSIVE stack_frames(_, _)
\* The frames from number k on, one below the other; the frames that have
\* columns have the same columns.
stack_frames(frames, k) ==
    IF k > Len(frames) THEN EmptyFrame
    ELSE LET rest == stack_frames(frames, k + 1)
         IN  [columns |-> IF frames[k].columns # <<>> THEN frames[k].columns
                          ELSE rest.columns,
              index |-> frames[k].index \o rest.index,
              rows |-> frames[k].rows \o rest.rows]

\* The cells of the row under the columns `from`, put under the columns `to`.
reorder_row(row, from, to) ==
    [n \in 1..Len(to) |-> row[CHOOSE m \in 1..Len(from) : from[m] = to[n]]]

\* pandas.concat(frames): ValueError for an empty list.  Frames whose
\* columns differ (here: frames without columns among frames with columns)
\* get the union of the columns, sorted or not as the pandas has it.
pd_concat(frames) ==
    IF Len(frames) = 0
    THEN [exc |-> "ValueError", frame |-> EmptyFrame]
    ELSE LET stacked == stack_frames(frames, 1)
             aligned == \A k \in 1..Len(frames) : frames[k].columns = frames[1].columns
             columns == IF aligned \/ config.pandas = KEEPS THEN stacked.columns
                        ELSE sorted_columns(stacked.columns)
         IN  [exc |-> "none",
              frame |-> [columns |-> columns,
                         index |-> stacked.index,
                         rows |-> [i \in 1..Len(stacked.rows) |->
                                      reorder_row(stacked.rows[i], stacked.columns, columns)]]]

HasDuplicates(index) == \E i, j \in 1..Len(index) : i < j /\ index[i] = index[j]

RECURSIVE SortedLabels(_)
\* The labels of a set, ascending.
SortedLabels(S) ==
    IF S = {} THEN <<>>
    ELSE LET m == CHOOSE x \in S : \A y \in S : x <= y
         IN  <<m>> \o SortedLabels(S \ {m})

\* The row of the frame labelled l, NaN in every column when it has none.
row_at(frame, l) ==
    IF \E i \in 1..Len(frame.index) : frame.index[i] = l
    THEN frame.rows[CHOOSE i \in 1..Len(frame.index) : frame.index[i] = l]
    ELSE [c \in 1..Len(frame.columns) |-> NaN]

RECURSIVE join_rows(_, _, _)
\* The cells of the frames from number k on for position n of the index.
join_rows(frames, index, n) ==
    IF frames = <<>> THEN <<>>
    ELSE (IF Head(frames).index = index
          THEN Head(frames).rows[n]
          ELSE row_at(Head(frames), index[n]))
         \o join_rows(Tail(frames), index, n)

RECURSIVE all_columns(_)
all_columns(frames) ==
    IF frames = <<>> THEN <<>> ELSE Head(frames).columns \o all_columns(Tail(frames))

\* The frames side by side on the index given.
join_on(frames, index) ==
    [columns |-> all_columns(frames),
     index |-> index,
     rows |-> [n \in 1..Len(index) |-> join_rows(frames, index, n)]]

\* pandas.concat(frames, axis=1), the set of its possible outcomes.  Frames
\* with the same index are put side by side, row by row.  Otherwise the
\* rows are matched by label on the union of the indexes: a frame whose
\* index is not that union is reindexed, which raises for an index with
\* duplicate labels.  The union of two different indexes of which one has
\* duplicates is either the one with the duplicates or another index,
\* depending on their order and on the pandas version: both outcomes count.
pd_concat_axis1(frames) ==
    LET indexes == {frames[k].index : k \in 1..Len(frames)} \ {<<>>}
        labels == UNION {{ix[i] : i \in 1..Len(ix)} : ix \in indexes}
        with_duplicates == {ix \in indexes : HasDuplicates(ix)}
        raised == [exc |-> "ValueError", frame |-> EmptyFrame]
        joined(index) == [exc |-> "none", frame |-> join_on(frames, index)]
    IN  IF indexes = {} THEN {joined(<<>>)}
        ELSE IF Cardinality(indexes) = 1 THEN {joined(CHOOSE ix \in indexes : TRUE)}
        ELSE IF with_duplicates = {} THEN {joined(SortedLabels(labels))}
        ELSE IF Cardinality(with_duplicates) = 1
        THEN {raised, joined(CHOOSE ix \in with_duplicates : TRUE)}
        ELSE {raised}

\* The record of a load that has begun (lines 288-296), at the get for
\* treemaker number i and dataset number j.
load_begun(datasets, requested, force_reload, save_root, save_pickle) ==
    [op |-> "load", datasets |-> datasets, requested |-> requested,
     treemakers |-> <<<<"Fundamentals">>>> \o requested,
     force_reload |-> force_reload, save_root |-> save_root,
     save_pickle |-> save_pickle, before |-> fs,
     i |-> 1, j |-> 1, dataframes |-> <<>>, combined_dataframes |-> <<>>,
     calls |-> <<>>]

\* The record of a load that has ended: raised exc, or returned result.
load_ended(rec, exc, result, calls) ==
    [op |-> "load", datasets |-> rec.datasets, requested |-> rec.requested,
     force_reload |-> rec.force_reload, save_root |-> rec.save_root,
     save_pickle |-> rec.save_pickle, before |-> rec.before,
     exc |-> exc, result |-> result, calls |-> calls]

\* What load keeps of a call of get.
call_record(run_name, name, r) ==
    [run_name |-> run_name, treemaker |-> name, exc |-> r.exc, path |-> r.path,
     check |-> r.check, extracted |-> r.extracted, rows |-> Len(r.data)]

Loading == running.op = "load"

load_begin(datasets, requested, force_reload, save_root, save_pickle) ==
    /\ running = NoCall
    /\ running' = load_begun(datasets, requested, force_reload, save_root, save_pickle)
    /\ UNCHANGED <<fs, config, raw, last, first, treemakers>>

\* Line 302: the get for treemaker i and dataset j; its exception ends load.
load_get ==
    /\ Loading
    /\ running.i <= Len(running.treemakers)
    /\ running.j <= Len(running.datasets)
    /\ LET dataset == running.datasets[running.j]
           treemaker == running.treemakers[running.i]
           r == get_call(dataset, TmByName(treemaker), running.force_reload,
                         running.save_root, running.save_pickle)
           calls == Append(running.calls, call_record(dataset, treemaker, r))
       IN  /\ fs' = r.fs
           /\ IF r.exc # "none"
              THEN /\ last' = load_ended(running, r.exc, EmptyFrame, calls)
                   /\ running' = NoCall
              ELSE /\ running' =
                        [running EXCEPT
                            !.j = @ + 1,
                            !.dataframes = Append(@, frame_of(dataset, treemaker, r.data)),
                            !.calls = calls]
                   /\ UNCHANGED last
    /\ UNCHANGED <<config, raw, first, treemakers>>

\* Line 306: the frames of treemaker i, one below the other.
load_concat ==
    /\ Loading
    /\ running.i <= Len(running.treemakers)
    /\ running.j > Len(running.datasets)
    /\ LET c == pd_concat(running.dataframes)
       IN  IF c.exc # "none"
           THEN /\ last' = load_ended(running, c.exc, EmptyFrame, running.calls)
                /\ running' = NoCall
           ELSE /\ running' =
                     [running EXCEPT
                         !.i = @ + 1, !.j = 1, !.dataframes = <<>>,
                         !.combined_dataframes = Append(@, c.frame)]
                /\ UNCHANGED last
    /\ UNCHANGED <<fs, config, raw, first, treemakers>>

\* Lines 309-313: the frames of the treemakers side by side.
load_return ==
    /\ Loading
    /\ running.i > Len(running.treemakers)
    /\ IF Len(running.combined_dataframes) = 0
       THEN last' = load_ended(running, "RuntimeError", EmptyFrame, running.calls)
       ELSE \E c \in pd_concat_axis1(running.combined_dataframes) :
                last' = load_ended(running, c.exc, c.frame, running.calls)
    /\ running' = NoCall
    /\ UNCHANGED <<fs, config, raw, first, treemakers>>

\* The runs and the treemaker lists that load is called with.
run1 == <<"run1">>
run2 == <<"run2">>
LoadDatasets == {<<>>, <<run1>>, <<run1, run2>>}
LoadTreemakers == {<<>>, <<<<"TotalProperties">>>>, <<<<"Fundamentals">>>>}

\* A minitree file of the treemaker, made from main data of pax 4.9 by the
\* version v of the treemaker.
Minitree(v) == [metadata |-> [version |-> v, pax_version |-> p4_9]]
\* The minitrees of a run that the first folder holds at the start of
\* load: none, an outdated TotalProperties minitree, or current minitrees
\* of Fundamentals and of TotalProperties.
RunMinitrees(r) ==
    {<<>>,
     minitree_name(r, <<"TotalProperties">>, ".root") :> Minitree(v0_1),
     (minitree_name(r, <<"Fundamentals">>, ".root") :> Minitree(v0_1))
        @@ (minitree_name(r, <<"TotalProperties">>, ".root") :> Minitree(v0_2_0))}
\* The folders at the start of load; the second folder is empty.
LoadFolders ==
    {(minitree_paths[1] :> (f1 @@ f2)) @@ (minitree_paths[2] :> <<>>) :
        f1 \in RunMinitrees(run1), f2 \in RunMinitrees(run2)}
LoadRawFiles ==
    UNION {[R -> [file_builder_version : {p4_9}, events : 0..MaxEvents]] :
              R \in SUBSET {run1, run2}}

LoadInit ==
    /\ fs \in LoadFolders
    /\ config \in [pax_version_policy : {LATEST, LOOSE}, minitree_paths : {minitree_paths},
                   pandas : PandasBuilds]
    /\ raw \in LoadRawFiles
    /\ last = NoCall
    /\ first = NoCall
    /\ running = NoCall
    /\ treemakers = hax_init_treemakers

LoadNext ==
    \/ \E datasets \in LoadDatasets, requested \in LoadTreemakers,
          force_reload \in BOOLEAN, save_root \in BOOLEAN :
           load_begin(datasets, requested, force_reload, save_root, FALSE)
    \/ load_get
    \/ load_concat
    \/ load_return

SpecLoad == LoadInit /\ [][LoadNext]_vars

(***************************************************************************)
(* get for treemakers of every cache size on runs of every length.         *)
(***************************************************************************)
MaxCacheSize == 3
MaxStream == 4
\* A TreeMaker subclass that sets cache_size.
SizedMaker(size) ==
    [name |-> <<"Sized">>, has_version |-> TRUE, version |-> v0_1, cache_size |-> size]

DataInit ==
    /\ fs \in UNION {[D -> {<<>>}] : D \in SUBSET Folders}
    /\ config \in [pax_version_policy : Policies, minitree_paths : {minitree_paths}]
    /\ raw \in [Runs -> [file_builder_version : RawPaxVersions, events : 0..MaxStream]]
    /\ last = NoCall
    /\ first = NoCall
    /\ running = NoCall
    /\ treemakers = hax_init_treemakers

\* The treemaker arguments of get: the class of every cache size.
SizedTmArgs == {TmByClass(SizedMaker(size)) : size \in 1..MaxCacheSize}

DataNext ==
    \E run_name \in Runs, tm \in SizedTmArgs, force_reload \in BOOLEAN,
       save_root \in BOOLEAN, save_pickle \in BOOLEAN :
        get(run_name, tm, force_reload, save_root, save_pickle)

SpecData == DataInit /\ [][DataNext]_vars

(***************************************************************************)
(* The registry: update_treemakers over the modules of hax/treemakers, and *)
(* get by name and by class.                                               *)
(***************************************************************************)
\* A second class named Basics, in a module of its own, and a module with
\* the class that has no __version__.
OtherBasics ==
    [name |-> <<"Basics">>, has_version |-> TRUE, version |-> v0_2_0,
     cache_size |-> cache_size]
double == [module_name |-> <<"double">>, members |-> <<Member(OtherBasics)>>]
noversion ==
    [module_name |-> <<"noversion">>,
     members |-> <<Member(NoVersionMaker), Member(TreeMaker)>>]
\* What glob finds in hax/treemakers, in the order it lists the files.
ModuleLists ==
    {hax_treemakers,
     <<init_py, common, noversion>>,
     <<init_py, common, double>>,
     <<double, init_py, common>>,
     <<noversion, double, common, init_py>>}

\* The treemaker arguments of get: known and unknown names, and a class.
TmArgs ==
    KnownTmArgs \cup BadTmArgs \cup {TmByName(<<"NoVersionMaker">>)}

TmFolders ==
    {(minitree_paths[1] :> f) @@ (minitree_paths[2] :> <<>>) :
        f \in UNION {[K -> {Minitree(v0_2_0)}] :
                        K \in SUBSET {minitree_name(run1, n, ".root") :
                                        n \in {<<"TotalProperties">>, <<"NoVersionMaker">>}}}}

TmInit ==
    /\ fs \in TmFolders
    /\ config \in [pax_version_policy : Policies, minitree_paths : {minitree_paths}]
    /\ raw \in UNION {[R -> [file_builder_version : {p4_9}, events : 0..MaxEvents]] :
                         R \in SUBSET {run1}}
    /\ last = NoCall
    /\ first = NoCall
    /\ running = NoCall
    /\ treemakers = hax_init_treemakers

\* update_treemakers() with the modules that glob finds.
update_treemakers_call(modules) ==
    LET r == update_treemakers(modules)
    IN  /\ treemakers' = r.treemakers
        /\ last' = [op |-> "update_treemakers", modules |-> modules, exc |-> r.exc,
                    before |-> fs]
        /\ first' = NoCall
        /\ UNCHANGED <<fs, config, raw, running>>

TmNext ==
    \/ \E tm \in TmArgs, force_reload \in BOOLEAN,
          save_root \in BOOLEAN, save_pickle \in BOOLEAN :
           get(run1, tm, force_reload, save_root, save_pickle)
    \/ \E modules \in ModuleLists : update_treemakers_call(modules)

SpecTm == TmInit /\ [][TmNext]_vars

(***************************************************************************)
(* Two processes that call get.  get holds no lock and no step of it is    *)
(* atomic with another: between any two of its steps the other process     *)
(* takes steps of its own get.  The steps of a get are the check of lines  *)
(* 217-236, the extraction of line 240, the test for the creation folder   *)
(* of line 252, its making of line 253 (with the path and the metadata of  *)
(* lines 254-259), the pickle of lines 260-264, the tree of lines 265-270, *)
(* the metadata of lines 271-275 and the return of line 276.  running is   *)
(* the get of each process, NoCall for a process that is in none.          *)
(***************************************************************************)
Procs == {1, 2}

\* The get that a process is in, after its check found no minitree.
get_begun(run_name, tm, force_reload, save_root, save_pickle, chk) ==
    [op |-> "get", pc |-> "extract", run_name |-> run_name, tm |-> tm,
     force_reload |-> force_reload, save_root |-> save_root,
     save_pickle |-> save_pickle, before |-> fs, check |-> chk,
     data |-> <<>>, path |-> None, metadata |-> None]

\* The record of a get that a process has ended.
get_ended(rec, exc, path, data, extracted) ==
    [op |-> "get", run_name |-> rec.run_name, tm |-> rec.tm,
     force_reload |-> rec.force_reload, save_root |-> rec.save_root,
     save_pickle |-> rec.save_pickle, before |-> rec.before,
     exc |-> exc, path |-> path, data |-> data,
     check |-> rec.check, extracted |-> extracted]

\* Lines 217-236: the name and the class, the version, and the check for a
\* minitree; the get ends here with an exception or with the path found.
get_check(p, run_name, tm, force_reload, save_root, save_pickle) ==
    LET r == get_call(run_name, tm, force_reload, save_root, save_pickle)
        rec == get_begun(run_name, tm, force_reload, save_root, save_pickle, r.check)
    IN  /\ running[p] = NoCall
        /\ IF r.extracted
           THEN /\ running' = [running EXCEPT ![p] = rec]
                /\ UNCHANGED last
           ELSE /\ last' = get_ended(rec, r.exc, r.path, <<>>, FALSE)
                /\ UNCHANGED running
        /\ UNCHANGED <<fs, config, raw, first, treemakers>>

\* Line 240: treemaker().get_data(run_name); its exception ends the get.
get_extract(p) ==
    LET rec == running[p]
    IN  /\ rec.op = "get" /\ rec.pc = "extract"
        /\ LET treemaker == get_treemaker_name_and_class(rec.tm).class
               skimmed_data == get_data(treemaker, rec.run_name)
           IN  IF skimmed_data.exc # "none"
               THEN /\ last' = get_ended(rec, skimmed_data.exc, None, <<>>, TRUE)
                    /\ running' = [running EXCEPT ![p] = NoCall]
               ELSE /\ running' = [running EXCEPT ![p].pc = "exists",
                                                  ![p].data = skimmed_data.data]
                    /\ UNCHANGED last
        /\ UNCHANGED <<fs, config, raw, first, treemakers>>

\* Lines 254-259: the minitree path in the creation folder and the
\* metadata; then the pickle, the tree or the return, as the flags say.
get_named(rec) ==
    LET nc == get_treemaker_name_and_class(rec.tm)
        creation_dir == creation_dir_of(config.minitree_paths)
    IN  [rec EXCEPT
            !.pc = IF rec.save_pickle THEN "pickle"
                   ELSE IF rec.save_root THEN "tree" ELSE "return",
            !.path = <<creation_dir, minitree_name(rec.run_name, nc.name, ".root")>>,
            !.metadata =
                [version |-> nc.class.version,
                 pax_version |-> get_metadata(rec.run_name).file_builder_version]]

\* Lines 251-252: the test for the creation folder; when it exists the get
\* goes on at line 254.
get_exists(p) ==
    LET rec == running[p]
    IN  /\ rec.op = "get" /\ rec.pc = "exists"
        /\ running' =
             [running EXCEPT
                 ![p] = IF os_path_exists(fs, creation_dir_of(config.minitree_paths))
                        THEN get_named(rec)
                        ELSE [rec EXCEPT !.pc = "makedirs"]]
        /\ UNCHANGED <<fs, config, raw, last, first, treemakers>>

\* Line 253: os.makedirs(creation_dir), after the test found no folder; it
\* raises when another process made the folder since the test.
get_makedirs(p) ==
    LET rec == running[p]
    IN  /\ rec.op = "get" /\ rec.pc = "makedirs"
        /\ LET made == os_makedirs(fs, creation_dir_of(config.minitree_paths))
           IN  /\ fs' = made.fs
               /\ IF made.exc # "none"
                  THEN /\ last' = get_ended(rec, made.exc, None, <<>>, TRUE)
                       /\ running' = [running EXCEPT ![p] = NoCall]
                  ELSE /\ running' = [running EXCEPT ![p] = get_named(rec)]
                       /\ UNCHANGED last
        /\ UNCHANGED <<config, raw, first, treemakers>>

\* Lines 260-264: the pickle file.
get_pickle(p) ==
    LET rec == running[p]
    IN  /\ rec.op = "get" /\ rec.pc = "pickle"
        /\ fs' = write_file(fs, rec.path[1],
                            minitree_name(rec.run_name,
                                          get_treemaker_name_and_class(rec.tm).name, ".pkl"),
                            [metadata |-> rec.metadata])
        /\ running' = [running EXCEPT ![p].pc = IF rec.save_root THEN "tree" ELSE "return"]
        /\ UNCHANGED <<config, raw, last, first, treemakers>>

\* Lines 265-270: the tree, to a new file at the minitree path.
get_tree(p) ==
    LET rec == running[p]
    IN  /\ rec.op = "get" /\ rec.pc = "tree"
        /\ fs' = array2root(fs, rec.path)
        /\ running' = [running EXCEPT ![p].pc = "metadata"]
        /\ UNCHANGED <<config, raw, last, first, treemakers>>

\* Lines 271-275: the metadata, into the file at the minitree path.
get_write_metadata(p) ==
    LET rec == running[p]
    IN  /\ rec.op = "get" /\ rec.pc = "metadata"
        /\ fs' = write_metadata(fs, rec.path, rec.metadata)
        /\ running' = [running EXCEPT ![p].pc = "return"]
        /\ UNCHANGED <<config, raw, last, first, treemakers>>

\* Line 276: return minitree_path, skimmed_data.
get_return(p) ==
    LET rec == running[p]
    IN  /\ rec.op = "get" /\ rec.pc = "return"
        /\ last' = get_ended(rec, "none", rec.path, rec.data, TRUE)
        /\ running' = [running EXCEPT ![p] = NoCall]
        /\ UNCHANGED <<fs, config, raw, first, treemakers>>

ConcInit ==
    /\ fs \in {(minitree_paths[1] :> f) @@ (minitree_paths[2] :> <<>>) :
                  f \in UNION {[K -> {Minitree(v0_1), Minitree(v0_2_0)}] :
                                  K \in SUBSET Keys}}
              \cup {(minitree_paths[2] :> <<>>)}
    /\ config \in [pax_version_policy : {LATEST, LOOSE}, minitree_paths : {minitree_paths}]
    /\ raw \in UNION {[R -> [file_builder_version : {p4_9}, events : 0..MaxEvents]] :
                        R \in SUBSET Runs}
    /\ last = NoCall
    /\ first = NoCall
    /\ running = [p \in Procs |-> NoCall]
    /\ treemakers = hax_init_treemakers

ConcNext ==
    \E p \in Procs :
        \/ \E run_name \in Runs, tm \in KnownTmArgs, force_reload \in BOOLEAN,
              save_root \in BOOLEAN, save_pickle \in BOOLEAN :
               get_check(p, run_name, tm, force_reload, save_root, save_pickle)
        \/ get_extract(p)
        \/ get_exists(p)
        \/ get_makedirs(p)
        \/ get_pickle(p)
        \/ get_tree(p)
        \/ get_write_metadata(p)
        \/ get_return(p)

SpecConc == ConcInit /\ [][ConcNext]_vars

(***************************************************************************)
(* The minitree file names of two (run, treemaker) pairs, for names        *)
(* written character by character.                                         *)
(***************************************************************************)
MaxNameLen == 3
\* Names of letters and underscores that begin and end with a letter.
NameStrings ==
    {n \in UNION {[1..k -> {"a", "_"}] : k \in 1..MaxNameLen} :
        n[1] = "a" /\ n[Len(n)] = "a"}

NamesInit ==
    /\ fs \in {(minitree_paths[1] :> <<>>)}
    /\ config \in [pax_version_policy : {LATEST}, minitree_paths : {minitree_paths}]
    /\ raw = <<>>
    /\ last = NoCall
    /\ first = NoCall
    /\ running = NoCall
    /\ treemakers = hax_init_treemakers

\* Lines 227 and 254 of two calls of get: the minitree paths of the pairs.
minitree_path_of(run_name, treemaker_name) ==
    <<creation_dir_of(config.minitree_paths),
      minitree_name(run_name, treemaker_name, ".root")>>

name_minitrees(run_name1, treemaker_name1, run_name2, treemaker_name2) ==
    /\ last' = [op |-> "minitree_path",
                keys |-> <<<<run_name1, treemaker_name1>>,
                           <<run_name2, treemaker_name2>>>>,
                paths |-> <<minitree_path_of(run_name1, treemaker_name1),
                            minitree_path_of(run_name2, treemaker_name2)>>]
    /\ UNCHANGED <<fs, config, raw, first, running, treemakers>>

NamesNext ==
    \E run_name1 \in NameStrings, treemaker_name1 \in NameStrings,
       run_name2 \in NameStrings, treemaker_name2 \in NameStrings :
        name_minitrees(run_name1, treemaker_name1, run_name2, treemaker_name2)

SpecNames == NamesInit /\ [][NamesNext]_vars

(***************************************************************************)
(* dataframe_to_root_with_arrays for a frame with an array branch s and    *)
(* the branch n of its lengths.  A frame is the sequence of its rows; the  *)
(* tree written is the sequence of its entries, each with the n elements   *)
(* of the array branch that the branch s[n] stores.                        *)
(***************************************************************************)
MaxSeqLen == 2
\* Line 40: the number of rows looked at to find the length branch.
ProbeRows == 10
NoTree == <<>>

\* Line 40: the lengths of the arrays in rows 0..9; None stands for the
\* KeyError of dataframe[branch_name][i] past the last row.
probed_lengths(dataframe) ==
    IF Len(dataframe) < ProbeRows THEN None
    ELSE [i \in 1..ProbeRows |-> Len(dataframe[i].s)]

\* Lines 38-43: max_length, the largest value of the branch whose first
\* rows are those lengths, of the branches in column order; -1 when there
\* is no such branch.
max_length_of(dataframe) ==
    IF [i \in 1..ProbeRows |-> dataframe[i].n] = probed_lengths(dataframe)
    THEN CHOOSE m \in {dataframe[i].n : i \in 1..Len(dataframe)} :
            \A i \in 1..Len(dataframe) : dataframe[i].n <= m
    ELSE -1

\* Line 73: branches[array_key][:len(x)] = x.  The slice stops at the end
\* of the buffer; numpy assigns an x of the length of the slice, repeats an
\* x of one element over the slice, and raises ValueError for any other x.
slice_assign(buffer, x) ==
    IF Len(x) > Len(buffer) /\ Len(x) # 1
    THEN [exc |-> "ValueError", buffer |-> buffer]
    ELSE [exc |-> "none",
          buffer |-> [j \in 1..Len(buffer) |-> IF j <= Len(x) THEN x[j] ELSE buffer[j]]]

RECURSIVE fill_tree(_, _, _)
\* Lines 69-74: the entries for the rows from number event_index on, with
\* the buffer of the array branch as the rows before left it; the
\* exception of line 73 ends the loop and nothing is written.
fill_tree(dataframe, event_index, buffer) ==
    IF event_index > Len(dataframe) THEN [exc |-> "none", tree |-> <<>>]
    ELSE LET n == dataframe[event_index].n
             filled == slice_assign(buffer, dataframe[event_index].s)
             rest == fill_tree(dataframe, event_index + 1, filled.buffer)
         IN  IF filled.exc # "none" THEN [exc |-> filled.exc, tree |-> NoTree]
             ELSE IF rest.exc # "none" THEN rest
             ELSE [exc |-> "none",
                   tree |-> <<[n |-> n, s |-> SubSeq(filled.buffer, 1, n)]>> \o rest.tree]

\* The exception raised ("none" when it returns) and the tree written.
dataframe_to_root_with_arrays(dataframe) ==
    IF probed_lengths(dataframe) = None
    THEN [exc |-> "KeyError", tree |-> NoTree]
    ELSE IF max_length_of(dataframe) = -1
    THEN [exc |-> "KeyError", tree |-> NoTree]
    ELSE IF Len(dataframe[1].s) = 0
    THEN [exc |-> "IndexError", tree |-> NoTree]
    ELSE fill_tree(dataframe, 1, [j \in 1..max_length_of(dataframe) |-> 0])

\* Frames of 1, 2, 10 and 11 rows: row i has an array of up to MaxSeqLen
\* integers of its own and the length of that array.  The arrays of the
\* first three rows and of the last row have any length, those of the rows
\* in between the length of the third.  In a frame of 11 rows the last
\* row, which line 40 does not look at, has the length of its array or a
\* smaller number.
RowCounts == {1, 2, ProbeRows, ProbeRows + 1}
ArrayLengths(r) ==
    {lengths \in [1..r -> 0..MaxSeqLen] :
        \A i \in 4..(r - 1) : lengths[i] = lengths[3]}
LengthColumns(r, lengths) ==
    {[i \in 1..r |-> IF i = r THEN k ELSE lengths[i]] :
        k \in IF r > ProbeRows THEN 0..lengths[r] ELSE {lengths[r]}}
ArrayFrames ==
    UNION {UNION {{[i \in 1..r |-> [n |-> ns[i],
                                    s |-> [j \in 1..lengths[i] |-> 10 * i + j]]] :
                      ns \in LengthColumns(r, lengths)} :
                  lengths \in ArrayLengths(r)} :
           r \in RowCounts}

\* A call dataframe_to_root_with_arrays(dataframe) that has begun.
ArraysInit ==
    /\ fs \in {(minitree_paths[1] :> <<>>)}
    /\ config \in [pax_version_policy : {LATEST}, minitree_paths : {minitree_paths}]
    /\ raw = <<>>
    /\ last = NoCall
    /\ first = NoCall
    /\ running \in {[op |-> "dataframe_to_root_with_arrays", dataframe |-> dataframe] :
                       dataframe \in ArrayFrames}
    /\ treemakers = hax_init_treemakers

write_arrays ==
    /\ running.op = "dataframe_to_root_with_arrays"
    /\ LET r == dataframe_to_root_with_arrays(running.dataframe)
       IN  last' = [op |-> "dataframe_to_root_with_arrays",
                    dataframe |-> running.dataframe,
                    exc |-> r.exc, tree |-> r.tree]
    /\ running' = NoCall
    /\ UNCHANGED <<fs, config, raw, first, treemakers>>

ArraysNext == write_arrays

SpecArrays == ArraysInit /\ [][ArraysNext]_vars

(***************************************************************************)
(* get_data event by event: process_event appends the row of the event to  *)
(* the cache (line 102) and then calls check_cache (line 104); after the   *)
(* last event get_data calls check_cache(force_empty=True).                *)
(***************************************************************************)
\* The cache sizes of the treemakers: small ones and the one of TreeMaker.
CacheSizes == (1..MaxCacheSize) \cup {cache_size}

\* A get_data that has begun: treemaker instance self of a class with that
\* cache_size, on a dataset of n events, about to do what pc says with
\* event number i.
get_data_begun(size, n) ==
    [op |-> "get_data", self |-> NewTreeMaker, size |-> size, n |-> n,
     i |-> 1, pc |-> "append"]

BufferInit ==
    /\ fs \in {(minitree_paths[1] :> <<>>)}
    /\ config \in [pax_version_policy : {LATEST}, minitree_paths : {minitree_paths}]
    /\ raw = <<>>
    /\ last = NoCall
    /\ first = NoCall
    /\ running \in {get_data_begun(size, n) : size \in CacheSizes, n \in 0..MaxStream}
    /\ treemakers = hax_init_treemakers

\* Line 102: self.cache.append(self.extract_data(event))
cache_append ==
    /\ running.op = "get_data" /\ running.pc = "append"
    /\ running.i <= running.n
    /\ running' = [running EXCEPT
                      !.self.cache = Append(@, extract_data(running.i)),
                      !.pc = "check_cache"]
    /\ UNCHANGED <<fs, config, raw, last, first, treemakers>>

\* Line 104: self.check_cache()
cache_check ==
    /\ running.op = "get_data" /\ running.pc = "check_cache"
    /\ running' = [running EXCEPT
                      !.self = check_cache(@, running.size, FALSE),
                      !.i = @ + 1,
                      !.pc = "append"]
    /\ UNCHANGED <<fs, config, raw, last, first, treemakers>>

\* Lines 117-121: after the last event.
get_data_end ==
    /\ running.op = "get_data" /\ running.pc = "append"
    /\ running.i > running.n
    /\ LET self == check_cache(running.self, running.size, TRUE)
       IN  last' = [op |-> "get_data", size |-> running.size, n |-> running.n,
                    exc |-> IF self.has_data THEN "none" ELSE "RuntimeError",
                    self |-> self]
    /\ running' = NoCall
    /\ UNCHANGED <<fs, config, raw, first, treemakers>>

BufferNext == cache_append \/ cache_check \/ get_data_end

SpecBuffer == BufferInit /\ [][BufferNext]_vars

(***************************************************************************)
(* hax.lichen: RangeLichen.get_min and get_max.  A lichen is its           *)
(* allowed_range, None or the tuple of min then max, and its variable,     *)
(* None or a name.                                                         *)
(***************************************************************************)
MaxRangeValue == 5
AllowedRanges ==
    {None} \cup {<<lo, hi>> : lo \in 0..MaxRangeValue, hi \in 0..MaxRangeValue}
Variables == {None, <<"cs1">>}
RangeLichens == [allowed_range : AllowedRanges \ {<<v, v>> : v \in 0..MaxRangeValue},
                 variable : Variables]

\* The exception raised ("none" when it returns) and the value returned.
\* raise NotImplemented() raises TypeError: NotImplemented is not callable;
\* so does the subscript of an allowed_range that is None.
get_min(self) ==
    IF self.variable = None THEN [exc |-> "TypeError", value |-> None]
    ELSE IF self.allowed_range = None THEN [exc |-> "TypeError", value |-> None]
    ELSE [exc |-> "none", value |-> self.allowed_range[1]]

get_max(self) ==
    IF self.variable = None THEN [exc |-> "TypeError", value |-> None]
    ELSE IF self.allowed_range = None THEN [exc |-> "TypeError", value |-> None]
    ELSE [exc |-> "none", value |-> self.allowed_range[1]]

\* A call of get_min or get_max on a lichen that has begun.
LichenInit ==
    /\ fs \in {(minitree_paths[1] :> <<>>)}
    /\ config \in [pax_version_policy : {LATEST}, minitree_paths : {minitree_paths}]
    /\ raw = <<>>
    /\ last = NoCall
    /\ first = NoCall
    /\ running \in [op : {"get_min", "get_max"}, self : RangeLichens]
    /\ treemakers = hax_init_treemakers

get_min_call ==
    /\ running.op = "get_min"
    /\ LET r == get_min(running.self)
       IN  last' = [op |-> "get_min", self |-> running.self,
                    exc |-> r.exc, value |-> r.value]
    /\ running' = NoCall
    /\ UNCHANGED <<fs, config, raw, first, treemakers>>

get_max_call ==
    /\ running.op = "get_max"
    /\ LET r == get_max(running.self)
       IN  last' = [op |-> "get_max", self |-> running.self,
                    exc |-> r.exc, value |-> r.value]
    /\ running' = NoCall
    /\ UNCHANGED <<fs, config, raw, first, treemakers>>

LichenNext == get_min_call \/ get_max_call

SpecLichen == LichenInit /\ [][LichenNext]_vars

(***************************************************************************)
(* Vocabulary of the properties.  The version order is written down here   *)
(* on its own: the components of each version string of the model, and the *)
(* order on lists of numbers.                                              *)
(***************************************************************************)
Components(v) ==
    CASE v = v0_1 -> <<0, 1>>
      [] v = v0_2_0 -> <<0, 2, 0>>
      [] v = v0_10 -> <<0, 10>>
      [] v = p4_9 -> <<4, 9>>
      [] v = p4_09 -> <<4, 9>>
      [] v = p4_10 -> <<4, 10>>

RECURSIVE NumLess(_, _)
NumLess(a, b) ==
    IF a = <<>> THEN b # <<>>
    ELSE IF b = <<>> THEN FALSE
    ELSE IF Head(a) # Head(b) THEN Head(a) < Head(b)
    ELSE NumLess(Tail(a), Tail(b))

\* v < w in the dotted-numeric order.
DottedLess(v, w) == NumLess(Components(v), Components(w))

\* The last call was a get that did not force a reload.
Looked == last.op = "get" /\ ~last.force_reload
\* The file name of the last call's key, and the version of its treemaker.
Filename == minitree_name(last.run_name, last.tm.name, ".root")
TmVersion == treemakers[last.tm.name].version
Policy == config.pax_version_policy
Exact == Policy # LATEST /\ Policy # LOOSE

\* Folder number i held the key's file before the last call.
Held(i) ==
    /\ minitree_paths[i] \in DOMAIN last.before
    /\ Filename \in DOMAIN last.before[minitree_paths[i]]
\* Some folder did; the first of them; the file there and its metadata.
Found == Looked /\ \E i \in 1..Len(minitree_paths) : Held(i)
FirstHeld == CHOOSE i \in 1..Len(minitree_paths) : Held(i) /\ \A j \in 1..(i - 1) : ~Held(j)
FoundPath == <<minitree_paths[FirstHeld], Filename>>
MetaIn(i) == last.before[minitree_paths[i]][Filename].metadata
FoundMeta == MetaIn(FirstHeld)

HasPax(md) == "pax_version" \in DOMAIN md
RawKnown == last.run_name \in DOMAIN raw
Current == raw[last.run_name].file_builder_version

\* Older than the treemaker; acceptable to the version policy.
Stale(md) == DottedLess(md.version, TmVersion)
PolicyAccepts(md) ==
    IF Policy = LATEST THEN ~RawKnown \/ (HasPax(md) /\ ~DottedLess(md.pax_version, Current))
    ELSE IF Policy = LOOSE THEN TRUE
    ELSE HasPax(md) /\ md.pax_version = Policy

Accepted(path) == last.check = [exc |-> "none", path |-> path]
Missed == last.check = [exc |-> "none", path |-> None]
Rebuilt == last.extracted /\ last.exc = "none"

\* The second of two calls with the same arguments, the first having returned.
Repeated == first.op = "get" /\ first.exc = "none" /\ ~last.force_reload
SecondIsHit == last.exc = "none" /\ ~last.extracted /\ last.path = first.path

(***************************************************************************)
(* C1.  As stated: for every policy and every choice of save flags, the    *)
(* second of two consecutive get calls with the same arguments and         *)
(* force_reload=False returns the path of the first without extraction.    *)
(***************************************************************************)
C1_SecondCallNeverExtracts == Repeated => SecondIsHit

\* C1, amended: the second call returns the path of the first without
\* extraction when the first call found an accepted minitree, or built one
\* with save_root=True under policy latest, loose, or a pax version equal to
\* the file_builder_version of the main data root file.
C1_SecondCallHitsWhatWasSaved ==
    (/\ Repeated
     /\ first.extracted =>
            /\ last.save_root
            /\ (Policy \in {LATEST, LOOSE} \/ (RawKnown /\ Policy = Current)))
        => SecondIsHit

\* The first call rebuilt an outdated minitree, the second found the new one.
C1_Witness ==
    /\ Repeated
    /\ first.extracted
    /\ \E d \in DOMAIN first.before : Filename \in DOMAIN first.before[d]
    /\ SecondIsHit

(***************************************************************************)
(* C2.  With force_reload=True _check_minitree_path answers None and get   *)
(* calls get_data, whatever the folders hold.                              *)
(***************************************************************************)
C2_ForceReloadExtracts ==
    (last.op = "get" /\ last.force_reload) => (Missed /\ last.extracted)

\* A forced rebuild although the first folder's minitree was up to date and
\* acceptable to the policy.
C2_Witness ==
    /\ last.op = "get" /\ last.force_reload
    /\ \E i \in 1..Len(minitree_paths) : Held(i)
    /\ ~Stale(FoundMeta) /\ PolicyAccepts(FoundMeta)
    /\ Rebuilt

(***************************************************************************)
(* C3.  A found minitree whose version is below the treemaker's in the     *)
(* dotted-numeric order is a miss, get extracts again, and the metadata of *)
(* the file it writes carries the treemaker's version.  A version equal to *)
(* or above the treemaker's is not turned down by this check: a minitree   *)
(* that the policy accepts is then returned.                               *)
(***************************************************************************)
C3_OutdatedTreemakerVersion ==
    Found =>
        /\ Stale(FoundMeta) =>
              /\ Missed
              /\ last.extracted
              /\ (last.exc = "none" /\ last.save_root) =>
                     fs[last.path[1]][last.path[2]].metadata.version = TmVersion
        /\ (~Stale(FoundMeta) /\ PolicyAccepts(FoundMeta)) => Accepted(FoundPath)

\* Version 0.1 on disk, treemaker 0.2.0: rebuilt and written with 0.2.0.
C3_Witness ==
    /\ Found /\ Stale(FoundMeta) /\ Rebuilt /\ last.save_root
    /\ FoundMeta.version = v0_1
    /\ fs[last.path[1]][last.path[2]].metadata.version = v0_2_0

(***************************************************************************)
(* C4.  Under a policy that names a pax version, a found minitree is       *)
(* accepted only if its pax_version is that very string; one with another  *)
(* pax_version is a miss, and get extracts again.                          *)
(***************************************************************************)
C4_ExactPolicy ==
    (Found /\ Exact) =>
        /\ last.check.path # None =>
              (HasPax(FoundMeta) /\ FoundMeta.pax_version = Policy)
        /\ (HasPax(FoundMeta) /\ FoundMeta.pax_version # Policy) =>
              (Missed /\ last.extracted)

\* An up-to-date minitree of pax 4.09 under policy 4.9 is rebuilt.
C4_Witness ==
    /\ Found /\ Exact /\ ~Stale(FoundMeta)
    /\ HasPax(FoundMeta) /\ FoundMeta.pax_version = p4_09 /\ Policy = p4_9
    /\ Missed /\ Rebuilt

(***************************************************************************)
(* C5.  Under policy latest, with the main data root file at hand, an      *)
(* up-to-date minitree is accepted iff its pax_version is not below the    *)
(* file_builder_version in the dotted-numeric order.  Under the other      *)
(* policies the answer is a function of the minitree and the policy alone. *)
(***************************************************************************)
C5_LatestPolicy ==
    (Found /\ ~Stale(FoundMeta)) =>
        /\ (Policy = LATEST /\ RawKnown) =>
              /\ last.check.exc = "none"
              /\ Accepted(FoundPath) <=>
                     (HasPax(FoundMeta) /\ ~DottedLess(FoundMeta.pax_version, Current))
        /\ (Policy # LATEST /\ HasPax(FoundMeta)) =>
              /\ last.check.exc = "none"
              /\ Accepted(FoundPath) <=>
                     (Policy = LOOSE \/ FoundMeta.pax_version = Policy)

\* pax 4.10 on disk, main data of pax 4.9: accepted.
C5_Witness ==
    /\ Found /\ ~Stale(FoundMeta) /\ Policy = LATEST /\ RawKnown
    /\ HasPax(FoundMeta) /\ FoundMeta.pax_version = p4_10 /\ Current = p4_9
    /\ Accepted(FoundPath)

(***************************************************************************)
(* C6.  Under policy latest, without the main data root file, an           *)
(* up-to-date minitree is accepted whatever its pax_version, and nothing   *)
(* is raised.                                                              *)
(***************************************************************************)
C6_LatestWithoutMainData ==
    (Found /\ ~Stale(FoundMeta) /\ Policy = LATEST /\ ~RawKnown) =>
        (Accepted(FoundPath) /\ last.exc = "none" /\ last.path = FoundPath)

\* Accepted without a pax_version in its metadata.
C6_Witness ==
    /\ Found /\ ~Stale(FoundMeta) /\ Policy = LATEST /\ ~RawKnown
    /\ ~HasPax(FoundMeta)
    /\ last.path = FoundPath

(***************************************************************************)
(* C7.  Under policy loose a found minitree is accepted whatever its       *)
(* pax_version, also without one, unless it is older than the treemaker:   *)
(* then it is a miss.                                                      *)
(***************************************************************************)
C7_LoosePolicy ==
    (Found /\ Policy = LOOSE) =>
        /\ ~Stale(FoundMeta) => Accepted(FoundPath)
        /\ Stale(FoundMeta) => Missed

\* An up-to-date minitree without a pax_version is accepted under loose.
C7_Witness ==
    /\ Found /\ Policy = LOOSE /\ ~Stale(FoundMeta) /\ ~HasPax(FoundMeta)
    /\ last.exc = "none" /\ last.path = FoundPath /\ ~last.extracted

(***************************************************************************)
(* C8.  As stated: a found minitree without a pax_version is a miss under  *)
(* policy latest (main data at hand) and under a policy that names a pax   *)
(* version.                                                                *)
(***************************************************************************)
C8_NoPaxVersionIsMiss ==
    (/\ Found
     /\ ~HasPax(FoundMeta)
     /\ (Policy = LATEST /\ RawKnown) \/ Exact)
        => Missed

(***************************************************************************)
(* C9.  As stated: the checks on a found minitree end in a path or in      *)
(* None, and never in an exception.                                        *)
(***************************************************************************)
C9_CheckNeverRaises == Found => last.check.exc = "none"

(***************************************************************************)
(* C10.  Only the first folder that holds the key's file counts: when that *)
(* file is outdated or turned down by the policy the answer is None, also  *)
(* with a good copy in a later folder; the path of folder i is returned    *)
(* only when no folder before i holds the file.                            *)
(***************************************************************************)
C10_FirstFolderOnly ==
    Found =>
        /\ (Stale(FoundMeta) \/ ~PolicyAccepts(FoundMeta)) => last.check.path = None
        /\ \A i \in 1..Len(minitree_paths) :
              last.check.path = <<minitree_paths[i], Filename>> =>
                  (Held(i) /\ \A j \in 1..(i - 1) : ~Held(j))

\* An outdated file in the first folder hides a good one in the second.
C10_Witness ==
    /\ Found /\ Held(1) /\ Held(2)
    /\ Stale(MetaIn(1))
    /\ ~Stale(MetaIn(2)) /\ PolicyAccepts(MetaIn(2))
    /\ Missed

(***************************************************************************)
(* Properties of load.                                                     *)
(***************************************************************************)
Loaded == last.op = "load"
Returned == Loaded /\ last.exc = "none"
HasEvents(d) == d \in DOMAIN raw /\ raw[d].events >= 1
Hit(c) == c.exc = "none" /\ ~c.extracted

\* C11: load([run1, run2], ['TotalProperties']) on runs with events returns
\* as many rows as the two runs have events together, whether the
\* minitrees were missing, outdated or found.
C11_RowsAreSumOverDatasets ==
    (/\ Returned
     /\ last.datasets = <<run1, run2>>
     /\ last.requested = <<<<"TotalProperties">>>>
     /\ HasEvents(run1) /\ HasEvents(run2))
    => Len(last.result.rows) = raw[run1].events + raw[run2].events

\* C12: load calls get for Fundamentals first, whatever was requested, and
\* what it returns has the columns of Fundamentals, whether the
\* Fundamentals minitrees were built or found.
C12_FundamentalsColumns ==
    /\ (Loaded /\ Len(last.calls) > 0) => last.calls[1].treemaker = <<"Fundamentals">>
    /\ Returned =>
         \A c \in {"event_time", "event_duration"} :
            \E n \in 1..Len(last.result.columns) : last.result.columns[n] = c

\* C13: load never returns a table without rows, and it raises the
\* RuntimeError "No data was extracted" for an empty list of datasets.
C13_NeverReturnsEmpty ==
    /\ Returned => Len(last.result.rows) > 0
    /\ (Loaded /\ last.datasets = <<>>) => last.exc = "RuntimeError"

\* C15: a get of load raises FileNotFoundError exactly when it reached
\* get_data for a run without main data; load then ends with that
\* exception at that call, and a get that found an accepted minitree
\* returns without extraction.
C15_RawNotFoundOnlyOnBuildPath ==
    Loaded =>
      \A k \in 1..Len(last.calls) :
         LET c == last.calls[k]
         IN  /\ c.exc = "FileNotFoundError" =>
                  /\ c.extracted /\ c.check.path = None
                  /\ c.run_name \notin DOMAIN raw
                  /\ k = Len(last.calls)
                  /\ last.exc = "FileNotFoundError"
             /\ (c.extracted /\ c.run_name \notin DOMAIN raw) =>
                  c.exc = "FileNotFoundError"
             /\ c.check.path # None => Hit(c)
\* A load that found the minitree of a run without main data, and then
\* ended at the get of another run without main data.
C15_Witness ==
    /\ Loaded /\ last.exc = "FileNotFoundError"
    /\ \E k \in 1..Len(last.calls) :
          /\ Hit(last.calls[k])
          /\ last.calls[k].run_name \notin DOMAIN raw

(***************************************************************************)
(* Properties of get_data.                                                 *)
(***************************************************************************)
\* C14: a get that reaches get_data on a run without events raises the
\* RuntimeError "Not a single event was extracted" and leaves the folders
\* as they were; on a run with events it does not raise, for every
\* cache_size, and its rows are those of the events, in order.
C14_EmptyRaisesNonEmptyDoesNot ==
    (last.op = "get" /\ last.extracted /\ last.run_name \in DOMAIN raw) =>
        LET n == raw[last.run_name].events
        IN  IF n = 0
            THEN last.exc = "RuntimeError" /\ fs = last.before
            ELSE last.exc = "none" /\ last.data = [i \in 1..n |-> i]
\* A get asked to save that raised on a run without events.
C14_Witness ==
    /\ last.op = "get" /\ last.extracted
    /\ last.save_root /\ last.save_pickle
    /\ last.run_name \in DOMAIN raw /\ raw[last.run_name].events = 0
    /\ last.exc = "RuntimeError"

(***************************************************************************)
(* Properties of the registry and of the treemaker argument.               *)
(***************************************************************************)
\* The class that the treemaker argument of the last get stands for, when
\* it stands for one.
Resolves ==
    /\ last.op = "get"
    /\ last.tm.isstr => last.tm.name \in DOMAIN treemakers
ResolvedClass ==
    IF last.tm.isstr THEN treemakers[last.tm.name] ELSE last.tm.class
\* The get ended before any lookup, extraction or write.
EndedBeforeLookup ==
    /\ last.check = NotChecked
    /\ ~last.extracted
    /\ fs = last.before

\* C16: get for a treemaker class without __version__ raises
\* AttributeError before _check_minitree_path and get_data are called and
\* leaves the folders as they were, whether a minitree of that name is
\* stored or not and whatever force_reload is.
C16_NoVersionRaisesFirst ==
    (Resolves /\ ~ResolvedClass.has_version) =>
        last.exc = "AttributeError" /\ EndedBeforeLookup
\* Such a get, without force_reload, with a minitree of that name stored.
C16_Witness ==
    /\ Resolves /\ ~ResolvedClass.has_version
    /\ ~last.force_reload
    /\ \E d \in DOMAIN fs :
          minitree_name(last.run_name, ResolvedClass.name, ".root") \in DOMAIN fs[d]
    /\ last.exc = "AttributeError"

\* The (module, member) positions that update_treemakers looks at.
Scanned(modules) ==
    {km \in (1..Len(modules)) \X (1..5) :
        /\ modules[km[1]].module_name[1] # "_"
        /\ km[2] <= Len(modules[km[1]].members)
        /\ modules[km[1]].members[km[2]][1] # <<"TreeMaker">>}
NameAt(modules, km) == modules[km[1]].members[km[2]][1]
ClassAt(modules, km) == modules[km[1]].members[km[2]][2]
TwoOfOneName(modules) ==
    \E a, b \in Scanned(modules) : a # b /\ NameAt(modules, a) = NameAt(modules, b)

\* C20: update_treemakers raises ValueError exactly when two of the classes
\* it finds have the same name, and otherwise leaves a registry with each
\* name found mapped to the one class of that name; get by a name that is
\* not in the registry raises ValueError before any lookup or extraction.
C20_OneClassPerName ==
    /\ last.op = "update_treemakers" =>
         /\ last.exc = "ValueError" <=> TwoOfOneName(last.modules)
         /\ last.exc = "none" =>
              /\ DOMAIN treemakers =
                    {NameAt(last.modules, km) : km \in Scanned(last.modules)}
              /\ \A km \in Scanned(last.modules) :
                    treemakers[NameAt(last.modules, km)] = ClassAt(last.modules, km)
    /\ (last.op = "get" /\ last.tm.isstr /\ last.tm.name \notin DOMAIN treemakers) =>
         last.exc = "ValueError" /\ EndedBeforeLookup
\* A get by the name of a class of common.py that the registry lost when
\* update_treemakers raised on the second Basics.
C20_Witness ==
    /\ last.op = "get" /\ last.tm = TmByName(<<"TotalProperties">>)
    /\ <<"Basics">> \in DOMAIN treemakers
    /\ <<"TotalProperties">> \notin DOMAIN treemakers
    /\ last.exc = "ValueError"

(***************************************************************************)
(* Properties of the write of a minitree.                                  *)
(***************************************************************************)
\* C17: the minitree file that a get finds has its metadata: no get sees a
\* file at the minitree path that holds the tree and not the metadata.
C17_FoundFileHasMetadata == Found => FoundMeta # None

(***************************************************************************)
(* Properties of the minitree path.                                        *)
(***************************************************************************)
\* C18: two (run, treemaker) pairs with the same minitree path are the
\* same pair, also when the names have underscores in them.
C18_PathInjective ==
    (last.op = "minitree_path" /\ last.paths[1] = last.paths[2]) =>
        last.keys[1] = last.keys[2]

(***************************************************************************)
(* Properties of dataframe_to_root_with_arrays.                            *)
(***************************************************************************)
\* C19: for a frame of one row or more with an array branch and the branch
\* of its lengths, the tree is written and every entry of it has the array
\* of its row: the same length, the same elements.
C19_ArrayRoundTrip ==
    (/\ last.op = "dataframe_to_root_with_arrays"
     /\ \A i \in 1..Len(last.dataframe) : last.dataframe[i].n = Len(last.dataframe[i].s)) =>
        /\ last.exc = "none"
        /\ Len(last.tree) = Len(last.dataframe)
        /\ \A i \in 1..Len(last.dataframe) : last.tree[i].s = last.dataframe[i].s

(***************************************************************************)
(* Properties of what get writes and where.                                *)
(***************************************************************************)
\* The folders other than the first of minitree_paths, before and after the
\* last call.
OtherFolders == (DOMAIN fs \cup DOMAIN last.before) \ {minitree_paths[1]}
OthersUntouched ==
    \A d \in OtherFolders :
        /\ d \in DOMAIN fs /\ d \in DOMAIN last.before
        /\ fs[d] = last.before[d]

\* C21: a get leaves every folder but the first of minitree_paths as it
\* was: what it creates or overwrites is in the first folder, also when
\* the outdated minitree that made it rebuild was found in a later folder.
C21_WritesOnlyInFirstFolder == last.op = "get" => OthersUntouched
\* A get that found an outdated minitree in the second folder only, built
\* the minitree again and saved it.
C21_Witness ==
    /\ Found /\ ~Held(1) /\ Held(2) /\ Stale(MetaIn(2))
    /\ Rebuilt /\ last.save_root
    /\ Filename \in DOMAIN fs[minitree_paths[1]]
    /\ OthersUntouched

(***************************************************************************)
(* Properties of the cache of a treemaker.                                 *)
(***************************************************************************)
\* The rows of events 1..k, in event order.
RowsOf(k) == [e \in 1..k |-> extract_data(e)]
\* The number of events whose rows were extracted so far.
ExtractedSoFar ==
    IF running.pc = "check_cache" THEN running.i ELSE running.i - 1

\* C22: during get_data over n events with cache_size >= 1, self.data
\* followed by self.cache is the rows extracted so far, in event order;
\* the cache never has more than cache_size rows and is emptied by the
\* check_cache that follows the append that filled it; when get_data ends
\* the cache is empty and self.data has the n rows of the events.
C22_CacheAndData ==
    /\ running.op = "get_data" =>
         /\ running.self.data \o running.self.cache = RowsOf(ExtractedSoFar)
         /\ Len(running.self.cache) <= running.size
         /\ running.pc = "append" => Len(running.self.cache) < running.size
    /\ last.op = "get_data" =>
         /\ last.self.cache = <<>>
         /\ last.self.data = RowsOf(last.n)
\* The cache full for the second time, before the check_cache that
\* empties it.
C22_Witness ==
    /\ running.op = "get_data" /\ running.pc = "check_cache"
    /\ running.self.has_data
    /\ Len(running.self.cache) = running.size

(***************************************************************************)
(* Properties of the order of load.                                        *)
(***************************************************************************)
\* The treemakers load goes through, and the number of its datasets.
LoadedTreemakers == <<<<"Fundamentals">>>> \o last.requested
NumDatasets == Len(last.datasets)
\* The calls of get for treemaker number i got rows.
BlockHasRows(i) ==
    \E k \in 1..Len(last.calls) :
        ((k - 1) \div NumDatasets) + 1 = i /\ last.calls[k].rows > 0
\* The runs that the cells of row number p of the result come from.
RunsOfRow(p) ==
    {last.result.rows[p][c][1] :
        c \in {b \in 1..Len(last.result.rows[p]) : last.result.rows[p][b] # NaN}}
PositionOf(run_name) ==
    CHOOSE j \in 1..NumDatasets : last.datasets[j] = run_name
\* For each column of the result, in order, the number of the treemaker
\* whose block it is in: the treemakers that got rows, in their order, each
\* with as many columns as its extract_data has keys.
BlockOfColumn ==
    all_columns([i \in 1..Len(LoadedTreemakers) |->
                   [columns |-> IF BlockHasRows(i)
                                THEN [m \in 1..Len(extract_keys(LoadedTreemakers[i])) |-> i]
                                ELSE <<>>]])

\* C23: load calls get treemaker by treemaker, Fundamentals first and then
\* the treemakers asked for in their order, and for each treemaker dataset
\* by dataset in their order; in what it returns every row is the row of
\* one dataset, the rows are in the order of the datasets, and the columns
\* of the treemakers that got rows are in the order of the treemakers.
C23_LoadKeepsOrder ==
    /\ Loaded =>
         \A k \in 1..Len(last.calls) :
            /\ last.calls[k].treemaker = LoadedTreemakers[((k - 1) \div NumDatasets) + 1]
            /\ last.calls[k].run_name = last.datasets[((k - 1) % NumDatasets) + 1]
    /\ Returned =>
         /\ Len(last.result.columns) = Len(BlockOfColumn)
         /\ \A n \in 1..Len(BlockOfColumn) :
               \E m \in 1..Len(extract_keys(LoadedTreemakers[BlockOfColumn[n]])) :
                  last.result.columns[n] = extract_keys(LoadedTreemakers[BlockOfColumn[n]])[m]
         /\ \A p \in 1..Len(last.result.rows) : Cardinality(RunsOfRow(p)) = 1
         /\ \A p, q \in 1..Len(last.result.rows) :
               p < q =>
                  \A dp \in RunsOfRow(p), dq \in RunsOfRow(q) :
                     PositionOf(dp) <= PositionOf(dq)

(***************************************************************************)
(* Properties of the check that follows a get.                             *)
(***************************************************************************)
\* What _check_minitree_path answers for the key of the last call, with
\* force_reload=False, in the state that the call left.
CheckNow ==
    check_minitree_path(Filename, treemakers[last.tm.name], last.run_name, FALSE)
BuiltAndSaved == last.op = "get" /\ Rebuilt /\ last.save_root

\* C24: after a get that built the minitree and saved it under the policy
\* latest or loose, _check_minitree_path for the same key returns the path
\* of that file in the first folder, whatever files of that name the other
\* folders hold.
C24_CheckFindsWhatWasBuilt ==
    (BuiltAndSaved /\ Policy \in {LATEST, LOOSE}) =>
        /\ last.path = <<minitree_paths[1], Filename>>
        /\ CheckNow = Return(last.path)
\* Such a get, forced, with a current minitree of that name in the second
\* folder that the policy accepts.
C24_Witness ==
    /\ BuiltAndSaved /\ Policy = LATEST
    /\ last.force_reload
    /\ Held(2) /\ ~Stale(MetaIn(2)) /\ PolicyAccepts(MetaIn(2))
    /\ CheckNow = Return(<<minitree_paths[1], Filename>>)

\* C25: a get whose _check_minitree_path returned a path calls no
\* get_data, leaves every folder and every file as it was, and returns
\* that path.
C25_HitReadsAndWritesNothing ==
    (last.op = "get" /\ last.check.exc = "none" /\ last.check.path # None) =>
        /\ last.exc = "none"
        /\ ~last.extracted
        /\ fs = last.before
        /\ last.path = last.check.path
\* Such a get, asked to save the root file and the pickle.
C25_Witness ==
    /\ Found /\ Accepted(FoundPath)
    /\ last.save_root /\ last.save_pickle
    /\ ~last.extracted /\ fs = last.before /\ last.path = FoundPath

\* The last get got to get_data for a run without main data or without
\* events.
BuildFails ==
    /\ last.op = "get" /\ last.extracted
    /\ last.run_name \in DOMAIN raw => raw[last.run_name].events = 0

\* C26: a get that gets to get_data, on a miss or with force_reload, for a
\* run without main data or without events raises FileNotFoundError or
\* RuntimeError and leaves every folder and every file as it was, so that
\* _check_minitree_path answers afterwards what it answered, or would have
\* answered, before.
C26_FailedBuildWritesNothing ==
    BuildFails =>
        /\ last.exc = IF last.run_name \in DOMAIN raw
                      THEN "RuntimeError" ELSE "FileNotFoundError"
        /\ fs = last.before
        /\ ~last.force_reload => CheckNow = last.check
\* Such a get, forced and asked to save, with a minitree of the key stored
\* in the first folder.
C26_Witness ==
    /\ BuildFails /\ last.force_reload
    /\ last.save_root /\ last.save_pickle
    /\ Held(1)
    /\ last.exc = "FileNotFoundError"
    /\ fs[minitree_paths[1]][Filename].metadata = MetaIn(1)

(***************************************************************************)
(* Properties of RangeLichen.                                              *)
(***************************************************************************)
\* The lichen of the last call has a variable and a range (min, max) with
\* min < max.
RangeSet ==
    /\ last.self.variable # None
    /\ last.self.allowed_range # None
    /\ last.self.allowed_range[1] < last.self.allowed_range[2]

\* C27: for a lichen with its variable set and allowed_range (min, max),
\* min < max, get_min returns min and get_max returns max.
C27_MinAndMaxOfRange ==
    /\ (last.op = "get_min" /\ RangeSet) =>
          last.exc = "none" /\ last.value = last.self.allowed_range[1]
    /\ (last.op = "get_max" /\ RangeSet) =>
          last.exc = "none" /\ last.value = last.self.allowed_range[2]

====
